---- MODULE Spec2Model ----
(***************************************************************************)
(* A model of the 16-bit virtual machine of src/src/cpu.rs: the register   *)
(* file, the byte memory, the fetch/decode/execute cycle, the stack        *)
(* primitives and the call-frame save/restore.                             *)
(***************************************************************************)
EXTENDS Integers, Sequences, FiniteSets, TLC

VARIABLES
    memory,            \* Cpu.memory: the bytes, kept as the non-zero cells of a zeroed Vec<u8>
    size,              \* memory.len()
    registers,         \* Cpu.registers: Vec<u16>, indexed 0..11
    stack_frame_size,  \* Cpu.stack_frame_size: u16
    overflow_checks,   \* the build profile: TRUE when u16 arithmetic overflow panics
    result,            \* what the last step() returned: "Ok", a CpuError, or a panic
    value,             \* what the last helper call returned (helper specifications)
    program,           \* the program image written into memory before the first step
    history,           \* history: the last steps, newest first: the instruction decoded
                       \*   and the registers, memory and counter before it ran
    frames,            \* history: the calls that have not returned yet, innermost first
    matched,           \* history: the call the last Return matched
    steps,             \* number of step() calls made by the driver loop
    calls              \* history: the last direct calls of the 16-bit memory helpers

vars == <<memory, size, registers, stack_frame_size, overflow_checks, result,
          value, program, history, frames, matched, steps, calls>>

----------------------------------------------------------------------------
(* Widths and register indices *)

Word == 65536
Byte == 256
RegCount == 12

IP == 0
ACC == 1
R1 == 2
R2 == 3
R3 == 4
R4 == 5
R5 == 6
R6 == 7
R7 == 8
R8 == 9
SP == 10
FP == 11

RegisterName == 0 .. (RegCount - 1)
GeneralRegs == R1 .. R8

CpuError == {"RegisterNameDoesNotExist", "RegisterOutOfBounds",
             "MemoryOutOfBounds", "InvalidInstruction"}
PanicOverflow == "PanicOverflow"      \* "attempt to add/subtract with overflow"
PanicIndex == "PanicIndex"            \* "index out of bounds"
Panics == {PanicOverflow, PanicIndex}

(* Bounds of the model *)
SmallMem == 1024
MaxSteps == 124
HistoryLen == 3

\* create_memory(256*256) of test_cpu
MemLen == 65536

----------------------------------------------------------------------------
(* Memory: a zero-initialised Vec<u8> of length size *)

create_registers(n) == [i \in 0 .. (n - 1) |-> 0]

ReadByte(mem, a) == IF a \in DOMAIN mem THEN mem[a] ELSE 0

\* memory[a] = b (a zero cell is dropped, so that equal memories are equal values)
WriteByte(mem, a, b) ==
    IF b = 0
    THEN [x \in (DOMAIN mem) \ {a} |-> mem[x]] @@ << >>
    ELSE (a :> b) @@ mem

----------------------------------------------------------------------------
(* The instruction table *)

InstructionTable ==
    [MoveLiteralToRegister |-> 16, MoveRegisterToRegister |-> 17,
     MoveRegisterToMemory |-> 18, MoveMemoryToRegister |-> 19,
     AddRegisterToRegister |-> 20, JumpNotEq |-> 21]

StackInstructionTable ==
    [PushLiteral |-> 22, PushRegister |-> 23, Pop |-> 24,
     CallLiteral |-> 25, CallRegister |-> 26, Return |-> 27]

define_instruction == InstructionTable @@ StackInstructionTable

Instruction == DOMAIN define_instruction

\* impl Into<u8> for Instruction
into(i) == define_instruction[i]

\* try_from looking only at the low five bits of the byte
TryFromLowBits(b) ==
    IF \E i \in Instruction : define_instruction[i] = b % 32
    THEN CHOOSE i \in Instruction : define_instruction[i] = b % 32
    ELSE "InvalidInstruction"

\* impl TryFrom<u8> for Instruction
try_from(b) ==
    IF \E i \in Instruction : define_instruction[i] = b
    THEN CHOOSE i \in Instruction : define_instruction[i] = b
    ELSE "InvalidInstruction"

----------------------------------------------------------------------------
(* The machine while a step runs: m.res is "Ok" until a `?` returns an     *)
(* error or the thread panics; m.val is the value the last helper returned *)

Machine(mem, regs, sfs) ==
    [mem |-> mem, regs |-> regs, sfs |-> sfs, res |-> "Ok", val |-> 0]

Fail(m, e) == [m EXCEPT !.res = e]

\* Sequencing: F applied to the value of m (evaluated once)
Bind(m, F(_)) == CHOOSE r \in {F(x) : x \in {m}} : TRUE

\* `?`: the rest of the function, F, runs only if what came before returned Ok
Then(m, F(_)) == Bind(m, LAMBDA x : IF x.res # "Ok" THEN x ELSE F(x))

\* u16 arithmetic: x is the mathematical result
Overflows(x) == x < 0 \/ x >= Word
Wrap(x) == (x + Word) % Word

get_register(m, name) == m.regs[name]

set_register(m, name, v) == [m EXCEPT !.regs[name] = v]

fetch(m) ==
    Then(m, LAMBDA x :
        LET next_instruction_address == get_register(x, IP) IN
        IF Overflows(next_instruction_address + 1) /\ overflow_checks
        THEN Fail(x, PanicOverflow)
        ELSE IF next_instruction_address < size
             THEN [x EXCEPT !.regs[IP] = Wrap(next_instruction_address + 1),
                            !.val = ReadByte(x.mem, next_instruction_address)]
             ELSE [x EXCEPT !.regs[IP] = Wrap(next_instruction_address + 1),
                            !.res = "MemoryOutOfBounds"])

fetch16(m) ==
    Then(m, LAMBDA x :
        LET next_instruction_address == get_register(x, IP) IN
        IF Overflows(next_instruction_address + 2) /\ overflow_checks
        THEN Fail(x, PanicOverflow)
        ELSE IF next_instruction_address >= size \/ next_instruction_address + 1 >= size
             THEN [x EXCEPT !.regs[IP] = Wrap(next_instruction_address + 2),
                            !.res = "MemoryOutOfBounds"]
             ELSE [x EXCEPT !.regs[IP] = Wrap(next_instruction_address + 2),
                            !.val = ReadByte(x.mem, next_instruction_address) * Byte
                                    + ReadByte(x.mem, next_instruction_address + 1)])

get_memory_16(m, instruction_address) ==
    Then(m, LAMBDA x :
        IF instruction_address >= size \/ instruction_address + 1 >= size
        THEN Fail(x, "MemoryOutOfBounds")
        ELSE [x EXCEPT !.val = ReadByte(x.mem, instruction_address) * Byte
                               + ReadByte(x.mem, instruction_address + 1)])

set_memory16(m, address, v) ==
    Then(m, LAMBDA x :
        LET first_byte == v % Byte
            second_byte == (v \div Byte) % Byte
        IN  IF address >= size THEN Fail(x, PanicIndex)
            ELSE IF Overflows(address + 1) /\ overflow_checks
                 THEN [x EXCEPT !.mem = WriteByte(x.mem, address, first_byte),
                                !.res = PanicOverflow]
                 ELSE IF Wrap(address + 1) >= size
                      THEN [x EXCEPT !.mem = WriteByte(x.mem, address, first_byte),
                                     !.res = PanicIndex]
                      ELSE [x EXCEPT !.mem = WriteByte(WriteByte(x.mem, address, first_byte),
                                                       Wrap(address + 1), second_byte)])

\* fetch_register_index without the reduction modulo the register count
FetchRegisterIndexUnreduced(m) ==
    Then(fetch(m), LAMBDA x : x)

fetch_register_index(m) ==
    Then(fetch(m), LAMBDA x : [x EXCEPT !.val = x.val % RegCount])

get_register_name(m, register_index) ==
    Then(m, LAMBDA x :
        IF register_index \in RegisterName THEN [x EXCEPT !.val = register_index]
        ELSE Fail(x, "RegisterOutOfBounds"))

----------------------------------------------------------------------------
(* Stack primitives *)

\* push that moves Fp, not Sp, down by two
PushMovingFramePointer(m, v) ==
    Then(m, LAMBDA x :
        Then(set_memory16(x, get_register(x, SP), v), LAMBDA y :
            LET sp_address == get_register(y, SP) IN
            IF Overflows(sp_address - 2) /\ overflow_checks
            THEN Fail(y, PanicOverflow)
            ELSE IF Overflows(y.sfs + 2) /\ overflow_checks
                 THEN [y EXCEPT !.regs[FP] = Wrap(sp_address - 2), !.res = PanicOverflow]
                 ELSE [y EXCEPT !.regs[FP] = Wrap(sp_address - 2),
                                !.sfs = Wrap(y.sfs + 2)]))

push(m, v) ==
    Then(m, LAMBDA x :
        Then(set_memory16(x, get_register(x, SP), v), LAMBDA y :
            LET sp_address == get_register(y, SP) IN
            IF Overflows(sp_address - 2) /\ overflow_checks
            THEN Fail(y, PanicOverflow)
            ELSE IF Overflows(y.sfs + 2) /\ overflow_checks
                 THEN [y EXCEPT !.regs[SP] = Wrap(sp_address - 2), !.res = PanicOverflow]
                 ELSE [y EXCEPT !.regs[SP] = Wrap(sp_address - 2),
                                !.sfs = Wrap(y.sfs + 2)]))

pop(m) ==
    Then(m, LAMBDA x :
        IF Overflows(get_register(x, SP) + 2) /\ overflow_checks
        THEN Fail(x, PanicOverflow)
        ELSE LET next_sp_address == Wrap(get_register(x, SP) + 2) IN
             IF Overflows(x.sfs - 2) /\ overflow_checks
             THEN [x EXCEPT !.regs[SP] = next_sp_address, !.res = PanicOverflow]
             ELSE get_memory_16([x EXCEPT !.regs[SP] = next_sp_address,
                                          !.sfs = Wrap(x.sfs - 2)],
                                next_sp_address))

----------------------------------------------------------------------------
(* Call frames *)

\* self.push(*self.get_register(&name)?)?
PushRegisterValue(m, name) ==
    Bind(m, LAMBDA x : push(x, get_register(x, name)))

\* push_state that saves the frame-byte counter without the 2 for its own slot
PushStateWithoutSlot(m) ==
    Then(PushRegisterValue(PushRegisterValue(PushRegisterValue(
         PushRegisterValue(PushRegisterValue(PushRegisterValue(
         PushRegisterValue(PushRegisterValue(PushRegisterValue(
             m, R1), R2), R3), R4), R5), R6), R7), R8), IP),
         LAMBDA x :
            Then(push(x, x.sfs), LAMBDA y :
                LET stack_pointer_value == get_register(y, SP) IN
                [y EXCEPT !.regs[FP] = stack_pointer_value, !.sfs = 0]))

push_state(m) ==
    Then(PushRegisterValue(PushRegisterValue(PushRegisterValue(
         PushRegisterValue(PushRegisterValue(PushRegisterValue(
         PushRegisterValue(PushRegisterValue(PushRegisterValue(
             m, R1), R2), R3), R4), R5), R6), R7), R8), IP),
         LAMBDA x :
            IF Overflows(x.sfs + 2) /\ overflow_checks THEN Fail(x, PanicOverflow)
            ELSE Then(push(x, Wrap(x.sfs + 2)), LAMBDA y :
                     LET stack_pointer_value == get_register(y, SP) IN
                     [y EXCEPT !.regs[FP] = stack_pointer_value, !.sfs = 0]))

\* let x_pop = self.pop()?; self.set_register(&RegisterName::X, x_pop)?;
PopInto(m, name) ==
    Then(pop(m), LAMBDA x : set_register(x, name, x.val))

\* for _ in 0..number_of_args { self.pop()?; }
\* (the first half of the iterations, then the rest)
RECURSIVE PopArgs(_, _)
PopArgs(m, number_of_args) ==
    CHOOSE r \in { IF n = 0 \/ x.res # "Ok" THEN x
                   ELSE IF n = 1 THEN pop(x)
                   ELSE PopArgs(PopArgs(x, n \div 2), n - (n \div 2))
                   : x \in {m}, n \in {number_of_args} } : TRUE

\* stack_frame_size = stack_frame_size >> 8
ShiftFrameSize(frame_size) == frame_size \div Byte

\* The end of pop_state, with the frame pointer and frame size it read at its start
SetFramePointer(m, frame_pointer_address, frame_size) ==
    Then(m, LAMBDA x :
        LET shifted == ShiftFrameSize(frame_size) IN
        IF Overflows(frame_pointer_address + shifted) /\ overflow_checks
        THEN Fail(x, PanicOverflow)
        ELSE set_register(x, FP, Wrap(frame_pointer_address + shifted)))

pop_state(m) ==
    Then(m, LAMBDA x :
        Then(pop(set_register(x, SP, get_register(x, FP))), LAMBDA p :
            SetFramePointer(
                Then(pop(PopInto(PopInto(PopInto(PopInto(PopInto(PopInto(PopInto(
                         PopInto(PopInto([p EXCEPT !.sfs = p.val],
                             IP), R8), R7), R6), R5), R4), R3), R2), R1)),
                     LAMBDA n : PopArgs(n, n.val)),
                get_register(x, FP), p.val)))

----------------------------------------------------------------------------
(* execute: one operator per match arm *)

MoveLiteralToRegister(m) ==
    Then(fetch16(m), LAMBDA l :
        Then(fetch_register_index(l), LAMBDA f :
            Then(get_register_name(f, f.val), LAMBDA x : set_register(x, x.val, l.val))))

MoveRegisterToRegister(m) ==
    Then(fetch_register_index(m), LAMBDA f :
        Then(get_register_name(f, f.val), LAMBDA from :
            Then(fetch_register_index(from), LAMBDA t :
                Then(get_register_name(t, t.val), LAMBDA x :
                    set_register(x, x.val, get_register(from, from.val))))))

MoveRegisterToMemory(m) ==
    Then(fetch_register_index(m), LAMBDA i :
        Then(get_register_name(i, i.val), LAMBDA f :
            LET register_value == get_register(f, f.val)
                first_byte == register_value % Byte
                second_byte == (register_value \div Byte) % Byte
            IN  Then(fetch16(f), LAMBDA x :
                    LET address == x.val IN
                    IF address >= size THEN Fail(x, PanicIndex)
                    ELSE IF address + 1 >= size
                         THEN [x EXCEPT !.mem = WriteByte(x.mem, address, first_byte),
                                        !.res = PanicIndex]
                         ELSE [x EXCEPT !.mem = WriteByte(WriteByte(x.mem, address, first_byte),
                                                          address + 1, second_byte)])))

MoveMemoryToRegister(m) ==
    Then(fetch16(m), LAMBDA f :
        LET address == f.val IN
        Then(fetch_register_index(f), LAMBDA i :
            Then(get_register_name(i, i.val), LAMBDA x :
                IF address >= size \/ address + 1 >= size THEN Fail(x, PanicIndex)
                ELSE LET address_byte1 == ReadByte(x.mem, address)
                         address_byte2 == ReadByte(x.mem, address + 1)
                         combined_bytes == address_byte2 * Byte + address_byte1
                     IN  set_register(x, x.val, combined_bytes))))

AddRegisterToRegister(m) ==
    Then(fetch_register_index(m), LAMBDA f :
        Then(fetch_register_index(f), LAMBDA x :
            IF f.val \notin DOMAIN x.regs \/ x.val \notin DOMAIN x.regs
            THEN Fail(x, "RegisterOutOfBounds")
            ELSE LET register_value1 == x.regs[f.val]
                     register_value2 == x.regs[x.val]
                 IN  IF Overflows(register_value1 + register_value2) /\ overflow_checks
                     THEN Fail(x, PanicOverflow)
                     ELSE set_register(x, ACC, Wrap(register_value1 + register_value2))))

\* JumpNotEq with the comparison inverted: jumps when Acc equals the value
JumpNotEqInverted(m) ==
    Then(fetch16(m), LAMBDA f :
        Then(fetch16(f), LAMBDA x :
            LET v == f.val
                address == x.val
                register_value == get_register(x, ACC)
            IN  IF v = register_value THEN set_register(x, IP, address) ELSE x))

JumpNotEq(m) ==
    Then(fetch16(m), LAMBDA f :
        Then(fetch16(f), LAMBDA x :
            LET v == f.val
                address == x.val
                register_value == get_register(x, ACC)
            IN  IF v # register_value THEN set_register(x, IP, address) ELSE x))

PushLiteral(m) ==
    Then(fetch16(m), LAMBDA x : push(x, x.val))

PushRegister(m) ==
    Then(fetch_register_index(m), LAMBDA f :
        Then(get_register_name(f, f.val), LAMBDA x : push(x, get_register(x, x.val))))

Pop(m) ==
    Then(fetch_register_index(m), LAMBDA f :
        Then(pop(f), LAMBDA x :
            IF f.val \notin DOMAIN x.regs THEN Fail(x, PanicIndex)
            ELSE [x EXCEPT !.regs[f.val] = x.val]))

CallLiteral(m) ==
    Then(fetch16(m), LAMBDA f :
        Then(push_state(f), LAMBDA x : set_register(x, IP, f.val)))

CallRegister(m) ==
    Then(fetch_register_index(m), LAMBDA f :
        Then(get_register_name(f, f.val), LAMBDA n :
            Then(push_state(n), LAMBDA x :
                set_register(x, IP, get_register(n, n.val)))))

Return(m) == pop_state(m)

execute(m, instruction) ==
    CASE instruction = "MoveLiteralToRegister" -> MoveLiteralToRegister(m)
      [] instruction = "MoveRegisterToRegister" -> MoveRegisterToRegister(m)
      [] instruction = "MoveRegisterToMemory" -> MoveRegisterToMemory(m)
      [] instruction = "MoveMemoryToRegister" -> MoveMemoryToRegister(m)
      [] instruction = "AddRegisterToRegister" -> AddRegisterToRegister(m)
      [] instruction = "JumpNotEq" -> JumpNotEq(m)
      [] instruction = "PushLiteral" -> PushLiteral(m)
      [] instruction = "PushRegister" -> PushRegister(m)
      [] instruction = "Pop" -> Pop(m)
      [] instruction = "CallLiteral" -> CallLiteral(m)
      [] instruction = "CallRegister" -> CallRegister(m)
      [] instruction = "Return" -> Return(m)

\* step that decodes the byte at Ip before advancing Ip, and fails without advancing
StepDecodingFirst(m) ==
    Bind(m, LAMBDA x0 :
        Then(fetch(x0), LAMBDA x :
            IF try_from(x.val) = "InvalidInstruction" THEN Fail(x0, "InvalidInstruction")
            ELSE execute(x, try_from(x.val))))

step(m) ==
    Then(fetch(m), LAMBDA x :
        IF try_from(x.val) = "InvalidInstruction" THEN Fail(x, "InvalidInstruction")
        ELSE execute(x, try_from(x.val)))

----------------------------------------------------------------------------
(* Program images, written the way test_cpu writes them *)

Hi(v) == (v \div Byte) % Byte
Lo(v) == v % Byte

AsmMoveLiteralToRegister(v, r) == <<into("MoveLiteralToRegister"), Hi(v), Lo(v), r>>
AsmMoveRegisterToRegister(r, t) == <<into("MoveRegisterToRegister"), r, t>>
AsmMoveRegisterToMemory(r, a) == <<into("MoveRegisterToMemory"), r, Hi(a), Lo(a)>>
AsmMoveMemoryToRegister(a, r) == <<into("MoveMemoryToRegister"), Hi(a), Lo(a), r>>
AsmAddRegisterToRegister(r, t) == <<into("AddRegisterToRegister"), r, t>>
AsmJumpNotEq(v, a) == <<into("JumpNotEq"), Hi(v), Lo(v), Hi(a), Lo(a)>>
AsmPushLiteral(v) == <<into("PushLiteral"), Hi(v), Lo(v)>>
AsmPushRegister(r) == <<into("PushRegister"), r>>
AsmPop(r) == <<into("Pop"), r>>
AsmCallLiteral(a) == <<into("CallLiteral"), Hi(a), Lo(a)>>
AsmCallRegister(r) == <<into("CallRegister"), r>>
AsmReturn == <<into("Return")>>

RECURSIVE Concat(_)
Concat(seqs) == IF seqs = << >> THEN << >> ELSE Head(seqs) \o Concat(Tail(seqs))

\* A program: its name and parameters, and the chunks [at, code] of its image
Chunk(at, code) == [at |-> at, code |-> code]
Prog(name, p, chunks) == [id |-> [name |-> name, p |-> p], chunks |-> chunks]

\* write_instruction!(writable_bytes, i, data...) for every chunk in turn, on zeroed
\* memory: each cell holds the byte of the last chunk that covers it
ByteAt(chunks, a) ==
    LET ks == {k \in 1 .. Len(chunks) :
                 a \in chunks[k].at .. (chunks[k].at + Len(chunks[k].code) - 1)}
    IN  IF ks = {} THEN 0
        ELSE LET k == CHOOSE j \in ks : \A i \in ks : i <= j
             IN  chunks[k].code[a - chunks[k].at + 1]

Load(chunks) ==
    LET written == UNION {chunks[k].at .. (chunks[k].at + Len(chunks[k].code) - 1)
                          : k \in 1 .. Len(chunks)}
    IN  [a \in {b \in written : ByteAt(chunks, b) # 0} |-> ByteAt(chunks, a)]

Extent(chunks) ==
    LET ends == {chunks[k].at + Len(chunks[k].code) : k \in 1 .. Len(chunks)}
    IN  CHOOSE e \in ends : \A f \in ends : f <= e

----------------------------------------------------------------------------
(* The programs the machine is started on *)

\* let sub_routine_address = 0x3000
sub_routine_address == 12288

PalindromeA == 1 * Byte + 1      \* 0x0101: an address whose two bytes are equal
PalindromeB == 2 * Byte + 2      \* 0x0202
LowSub == 3 * Byte               \* 0x0300: a subroutine address inside SmallMem

Vals == {0, 1, 255, 4660, 20817, 65535}     \* 0x00FF, 0x1234, 0x5151, 0xFFFF

\* A chunk at 0 that runs `lead` and then continues at `at` (by loading Ip)
StartAt(lead, at) ==
    IF at = Len(lead) THEN Chunk(0, lead)
    ELSE Chunk(0, lead \o AsmMoveLiteralToRegister(at, IP))

\* test_cpu: the caller, and what follows the call
ScenarioMain(sub) ==
    Concat(<<AsmPushLiteral(13107), AsmPushLiteral(8738), AsmPushLiteral(4369),
             AsmMoveLiteralToRegister(4660, R1), AsmMoveLiteralToRegister(22136, R4),
             AsmPushLiteral(0), AsmCallLiteral(sub)>>)

ScenarioSub ==
    Concat(<<AsmPushLiteral(258), AsmPushLiteral(772), AsmPushLiteral(1286),
             AsmMoveLiteralToRegister(1800, R1), AsmMoveLiteralToRegister(2314, R8),
             AsmReturn>>)

ScenarioTail(pops) ==
    IF pops = 1 THEN Concat(<<AsmPop(R5), AsmPop(R6), AsmPop(R7)>>)
    ELSE AsmPushLiteral(17476)

ScenarioPrograms ==
    { Prog("scenario", <<sub, pops>>,
           <<Chunk(0, ScenarioMain(sub) \o ScenarioTail(pops)), Chunk(sub, ScenarioSub)>>)
      : sub \in {sub_routine_address, LowSub}, pops \in {0, 1} }

\* A caller that sets R1 and R4, pushes n arguments and the count n, and calls
RECURSIVE PushLiterals(_, _)
PushLiterals(k, v) ==
    IF k = 0 THEN << >> ELSE AsmPushLiteral(v) \o PushLiterals(k - 1, v + 257)

CallInstr(kind, sub) ==
    IF kind = 0 THEN AsmCallLiteral(sub)
    ELSE AsmMoveLiteralToRegister(sub, R3) \o AsmCallRegister(R3)

CallMain(regv, n, kind, sub) ==
    Concat(<<AsmMoveLiteralToRegister(regv, R1), AsmMoveLiteralToRegister(regv, R4),
             PushLiterals(n, 43981), AsmPushLiteral(n), CallInstr(kind, sub)>>)

\* A callee that pushes k values, overwrites R1 and R8, perhaps calls on, and returns
CallSubHead(k, nest, sub2) ==
    Concat(<<PushLiterals(k, 2571), AsmMoveLiteralToRegister(1800, R1),
             AsmMoveLiteralToRegister(2314, R8),
             IF nest = 1 THEN AsmMoveLiteralToRegister(8995, R2) \o AsmPushLiteral(0)
                              \o AsmCallLiteral(sub2)
             ELSE << >> >>)

CallSub2 ==
    Concat(<<AsmMoveLiteralToRegister(3054, R2), AsmPushLiteral(3855), AsmReturn>>)

CallTail == Concat(<<AsmPop(R5), AsmPop(R6)>>)

CallProgram(regv, k, n, kind, ret, nest) ==
    LET sub2 == LowSub
        head == CallSubHead(k, nest, sub2)
        sub  == PalindromeB - Len(head)
        main == CallMain(regv, n, kind, sub)
        base == IF ret = 0 THEN 0 ELSE ret - Len(main)
    IN  Prog("call", <<regv, k, n, kind, ret, nest>>,
             <<StartAt(<< >>, base), Chunk(base, main \o CallTail),
               Chunk(sub, head \o AsmReturn), Chunk(sub2, CallSub2)>>)

CallPrograms ==
    { CallProgram(regv, k, n, kind, ret, nest) :
        regv \in {4660, 20817}, k \in 0 .. 2, n \in {0, 1}, kind \in {0, 1},
        ret \in {0, PalindromeA}, nest \in {0, 1} }

\* A push followed by a pop
PushPopPrograms ==
    { Prog("pushpop", <<kind, v, r, depth>>,
           <<Chunk(0, Concat(<<IF depth = 1 THEN AsmPushLiteral(48879) ELSE << >>,
                               IF kind = 0 THEN AsmPushLiteral(v)
                               ELSE AsmMoveLiteralToRegister(v, R2) \o AsmPushRegister(R2),
                               AsmPop(r)>>))>>)
      : kind \in {0, 1}, v \in Vals, r \in {R1, R3}, depth \in {0, 1} }

\* A byte that is no opcode, met first, after some work, or at the top of memory
InvalidPrograms ==
    { Prog("invalid", <<b, lead, at>>,
           LET code == IF lead = 1
                       THEN AsmMoveLiteralToRegister(4660, R1) \o AsmPushLiteral(2989)
                       ELSE << >>
           IN  IF at = 0 THEN <<Chunk(0, code \o <<b>>)>>
               ELSE <<StartAt(code, at), Chunk(at, <<b>>)>>)
      : b \in {0, 15, 28, 255}, lead \in {0, 1}, at \in {0, SmallMem - 1, MemLen - 1} }

\* A pop on the empty stack
PopEmptyPrograms ==
    { Prog("popempty", <<r>>, <<Chunk(0, AsmPop(r))>>) : r \in {R1, R5} }

\* A push, or a call, with Sp at the bottom of memory
PushFullPrograms ==
    { Prog("pushfull", <<s, kind>>,
           <<Chunk(0, Concat(<<AsmMoveLiteralToRegister(4660, R1),
                               AsmMoveLiteralToRegister(s, SP),
                               CASE kind = 0 -> AsmPushLiteral(4660)
                                 [] kind = 1 -> AsmPushRegister(R1)
                                 [] kind = 2 -> AsmCallLiteral(LowSub)>>))>>)
      : s \in {0, 1, 2, 4}, kind \in {0, 1, 2} }

\* An addition into Acc
AddPrograms ==
    { Prog("add", <<a, b>>,
           <<Chunk(0, Concat(<<AsmMoveLiteralToRegister(a, R1),
                               AsmMoveLiteralToRegister(b, R2),
                               AsmAddRegisterToRegister(R1, R2)>>))>>)
      : a \in {0, 1, 4660, 32768, 65535}, b \in {0, 1, 4660, 32768, 65535} }

JumpTarget == Byte \div 4        \* 0x0040

\* A conditional jump (and a second one at JumpTarget that falls through), placed low, at the end of memory, or across it
JumpPrograms ==
    { Prog("jump", <<acc, c, t, at>>,
           LET lead == AsmMoveLiteralToRegister(acc, ACC)
               next == Chunk(JumpTarget, AsmJumpNotEq(acc, LowSub))
           IN  IF at = 0 THEN <<Chunk(0, lead \o AsmJumpNotEq(c, t)), next>>
               ELSE <<StartAt(lead, at), Chunk(at, AsmJumpNotEq(c, t)), next>>)
      : acc \in {0, 3, 65535}, c \in {0, 3, 65535}, t \in {0, JumpTarget, sub_routine_address},
        at \in {0, SmallMem - 5, MemLen - 6, MemLen - 5} }

\* Register/memory moves
MovePrograms ==
    { Prog("move", <<v, a>>,
           <<Chunk(0, Concat(<<AsmMoveLiteralToRegister(v, R1),
                               AsmMoveRegisterToMemory(R1, a),
                               AsmMoveMemoryToRegister(a, R2),
                               AsmMoveRegisterToRegister(R2, R3)>>))>>)
      : v \in {4660, 20817}, a \in {256, SmallMem - 1, MemLen - 1} }

\* The value the register programs load into register r
RegValue(r) == 16 * Byte + (Byte + 2) * r

\* Every register but Ip, Sp and Fp loaded with its own value, and one value pushed
RegisterLead ==
    Concat([i \in 1 .. 9 |-> AsmMoveLiteralToRegister(RegValue(i), i)])
    \o AsmPushLiteral(3021)

\* An instruction with a register-index operand byte b, any byte value
RegisterInstr(kind, b) ==
    CASE kind = "mlr" -> AsmMoveLiteralToRegister(23131, b)
      [] kind = "mrr_from" -> AsmMoveRegisterToRegister(b, R2)
      [] kind = "mrr_to" -> AsmMoveRegisterToRegister(R1, b)
      [] kind = "mrm" -> AsmMoveRegisterToMemory(b, 2 * Byte)
      [] kind = "mmr" -> AsmMoveMemoryToRegister(1, b)
      [] kind = "add_first" -> AsmAddRegisterToRegister(b, R2)
      [] kind = "add_second" -> AsmAddRegisterToRegister(R1, b)
      [] kind = "push" -> AsmPushRegister(b)
      [] kind = "pop" -> AsmPop(b)
      [] kind = "call" -> AsmCallRegister(b)

RegisterKinds ==
    {"mlr", "mrr_from", "mrr_to", "mrm", "mmr", "add_first", "add_second",
     "push", "pop", "call"}

RegisterPrograms ==
    { Prog("register", <<kind, b>>, <<Chunk(0, RegisterLead \o RegisterInstr(kind, b))>>)
      : kind \in RegisterKinds, b \in 0 .. (Byte - 1) }

\* A caller that calls, and after the return calls again from the same frame; the
\* first return address is PalindromeA
TwoCallPrograms ==
    { Prog("twocalls", <<k>>,
           <<StartAt(<< >>, PalindromeA - 6),
             Chunk(PalindromeA - 6,
                   Concat(<<AsmPushLiteral(0), AsmCallLiteral(LowSub),
                            AsmPushLiteral(0), AsmCallLiteral(LowSub + JumpTarget)>>)),
             Chunk(LowSub, PushLiterals(k, 2571) \o AsmReturn),
             Chunk(LowSub + JumpTarget, PushLiterals(k, 3085) \o AsmReturn)>>)
      : k \in {1, 2} }

\* An instruction placed so that its bytes reach or cross the end of memory
EdgeInstr(kind) ==
    CASE kind = "push" -> AsmPushLiteral(4660)
      [] kind = "move" -> AsmMoveRegisterToRegister(R1, R2)
      [] kind = "pop" -> AsmPop(R1)
      [] kind = "return" -> AsmReturn

EdgePrograms ==
    { Prog("edge", <<kind, at>>,
           LET limit == IF at < SmallMem THEN SmallMem ELSE MemLen
               code == EdgeInstr(kind)
               fits == IF Len(code) <= limit - at THEN Len(code) ELSE limit - at
           IN  <<StartAt(<< >>, at), Chunk(at, SubSeq(code, 1, fits))>>)
      : kind \in {"push", "move", "pop", "return"},
        at \in {SmallMem - 3, SmallMem - 2, SmallMem - 1, MemLen - 3, MemLen - 2, MemLen - 1} }

\* A push, then the stack slot it filled read by MoveMemoryToRegister
SlotPrograms ==
    { Prog("slot", <<v, a>>,
           <<Chunk(0, AsmPushLiteral(v) \o AsmMoveMemoryToRegister(a, R1))>>)
      : v \in Vals, a \in {SmallMem - 2, MemLen - 2} }

\* k times PushLiteral v
RepeatPushLiteral(k, v) ==
    [i \in 1 .. 3 * k |-> CASE i % 3 = 1 -> into("PushLiteral")
                            [] i % 3 = 2 -> Hi(v)
                            [] OTHER -> Lo(v)]

\* A caller that has pushed so many values that the frame size it saves needs two
\* bytes (2 * (locals + 1) + 20 >= 256), then calls with argument count 0
BigFramePrograms ==
    { Prog("bigframe", <<locals>>,
           <<Chunk(0, RepeatPushLiteral(locals, 3021) \o AsmPushLiteral(0)
                      \o AsmCallLiteral(2 * Byte)),
             Chunk(2 * Byte, AsmPushLiteral(2571) \o AsmReturn)>>)
      : locals \in {116, 117, 118} }

\* Programs of stack instructions only: R2 is loaded through the stack with the
\* subroutine's address (PalindromeB reads the same in either byte order), `locals`
\* values are pushed, and the subroutine is called with argument count 0; the callee
\* pushes `held` values, pops one of them if `drop` = 1, and returns
StackMain(locals, kind) ==
    Concat(<<AsmPushLiteral(PalindromeB), AsmPop(R2),
             Concat([i \in 1 .. locals |-> AsmPushRegister(R2)]),
             AsmPushLiteral(0),
             IF kind = 0 THEN AsmCallLiteral(PalindromeB) ELSE AsmCallRegister(R2)>>)

StackSub(held, drop) ==
    Concat(<<PushLiterals(held, 2571), IF drop = 1 THEN AsmPop(R1) ELSE << >>, AsmReturn>>)

StackPrograms ==
    { Prog("stack", <<locals, kind, held, drop>>,
           <<Chunk(0, StackMain(locals, kind)), Chunk(PalindromeB, StackSub(held, drop))>>)
      : locals \in 0 .. 2, kind \in {0, 1}, held \in 1 .. 2, drop \in {0, 1} }

Programs ==
    ScenarioPrograms \cup CallPrograms \cup PushPopPrograms \cup InvalidPrograms
    \cup PopEmptyPrograms \cup PushFullPrograms \cup AddPrograms \cup JumpPrograms
    \cup MovePrograms \cup RegisterPrograms \cup TwoCallPrograms \cup EdgePrograms
    \cup SlotPrograms \cup BigFramePrograms \cup StackPrograms

MemorySizes == {SmallMem, MemLen}

----------------------------------------------------------------------------
(* The machine *)

\* Cpu::new
new(len) ==
    [create_registers(RegCount) EXCEPT ![FP] = (len - 1 - 1) % Word,
                                       ![SP] = (len - 1 - 1) % Word]

Init ==
    /\ size \in MemorySizes
    /\ overflow_checks \in BOOLEAN
    /\ \E p \in Programs :
          /\ Extent(p.chunks) <= size
          /\ program = p.id
          /\ memory = Load(p.chunks)
    /\ registers = new(size)
    /\ stack_frame_size = 0
    /\ result = "Ok"
    /\ value = 0
    /\ history = << >>
    /\ frames = << >>
    /\ matched = << >>
    /\ steps = 0
    /\ calls = << >>

\* The instruction at Ip, as step() will decode it
Decoded(mem, regs) ==
    IF regs[IP] < size THEN try_from(ReadByte(mem, regs[IP])) ELSE "None"

Snapshot(op) ==
    [op |-> op, regs |-> registers, mem |-> memory, sfs |-> stack_frame_size]

\* The return address a call at Ip saves
ReturnAddress(op, regs) == regs[IP] + (IF op = "CallLiteral" THEN 3 ELSE 2)

\* step_instruction_forever: cpu.step()? until it fails
Step ==
    /\ result = "Ok"
    /\ steps < MaxSteps
    /\ \E op \in {Decoded(memory, registers)},
          m \in {step(Machine(memory, registers, stack_frame_size))} :
          /\ memory' = m.mem
          /\ registers' = m.regs
          /\ stack_frame_size' = m.sfs
          /\ result' = m.res
          /\ value' = m.val
          /\ history' = SubSeq(<<Snapshot(op)>> \o history, 1,
                               IF Len(history) + 1 > HistoryLen THEN HistoryLen
                               ELSE Len(history) + 1)
          /\ frames' = IF m.res = "Ok" /\ op \in {"CallLiteral", "CallRegister"}
                       THEN <<[regs |-> registers, sfs |-> stack_frame_size,
                               ret |-> ReturnAddress(op, registers)]>> \o frames
                       ELSE IF m.res = "Ok" /\ op = "Return" /\ frames # << >>
                       THEN Tail(frames)
                       ELSE frames
          /\ matched' = IF m.res = "Ok" /\ op = "Return" /\ frames # << >>
                        THEN <<Head(frames)>> ELSE << >>
    /\ steps' = steps + 1
    /\ UNCHANGED <<size, overflow_checks, program, calls>>

Next == Step

Spec == Init /\ [][Next]_vars

----------------------------------------------------------------------------
(* The 16-bit memory helpers called directly on a fresh machine *)

MaxCalls == 2

HelperAddresses == {0, 1, Byte, SmallMem - 2, SmallMem - 1, MemLen - 2, MemLen - 1}

InitMem ==
    /\ size \in MemorySizes
    /\ overflow_checks \in BOOLEAN
    /\ program = [name |-> "none", p |-> << >>]
    /\ memory = << >>
    /\ registers = new(size)
    /\ stack_frame_size = 0
    /\ result = "Ok"
    /\ value = 0
    /\ history = << >>
    /\ frames = << >>
    /\ matched = << >>
    /\ steps = 0
    /\ calls = << >>

Write16 ==
    /\ result = "Ok"
    /\ Len(calls) < MaxCalls
    /\ \E a \in HelperAddresses, v \in Vals :
          \E m \in {set_memory16(Machine(memory, registers, stack_frame_size), a, v)} :
              /\ memory' = m.mem
              /\ result' = m.res
              /\ calls' = <<[op |-> "set_memory16", address |-> a, v |-> v]>> \o calls
    /\ UNCHANGED <<size, registers, stack_frame_size, overflow_checks, value, program,
                   history, frames, matched, steps>>

Read16 ==
    /\ result = "Ok"
    /\ Len(calls) < MaxCalls
    /\ \E a \in HelperAddresses :
          \E m \in {get_memory_16(Machine(memory, registers, stack_frame_size), a)} :
              /\ value' = m.val
              /\ result' = m.res
              /\ calls' = <<[op |-> "get_memory_16", address |-> a, v |-> 0]>> \o calls
    /\ UNCHANGED <<size, memory, registers, stack_frame_size, overflow_checks, program,
                   history, frames, matched, steps>>

NextMem == Write16 \/ Read16

SpecMem == InitMem /\ [][NextMem]_vars

----------------------------------------------------------------------------
(* The decoder called directly: value is the byte in hand, result the Instruction in *)
(* hand (or what the last try_from returned)                                          *)

InitDecode ==
    /\ size = SmallMem
    /\ overflow_checks = FALSE
    /\ program = [name |-> "none", p |-> << >>]
    /\ memory = << >>
    /\ registers = new(size)
    /\ stack_frame_size = 0
    /\ result \in Instruction \cup {"Ok"}
    /\ value \in 0 .. (Byte - 1)
    /\ history = << >>
    /\ frames = << >>
    /\ matched = << >>
    /\ steps = 0
    /\ calls = << >>

\* Instruction::try_from(value)
TryFrom ==
    /\ Len(calls) < MaxCalls
    /\ result' = try_from(value)
    /\ calls' = <<[op |-> "try_from", byte |-> value, instruction |-> result]>> \o calls
    /\ UNCHANGED <<memory, size, registers, stack_frame_size, overflow_checks, value,
                   program, history, frames, matched, steps>>

\* instruction.into()
Into ==
    /\ Len(calls) < MaxCalls
    /\ result \in Instruction
    /\ value' = into(result)
    /\ calls' = <<[op |-> "into", byte |-> value, instruction |-> result]>> \o calls
    /\ UNCHANGED <<memory, size, registers, stack_frame_size, overflow_checks, result,
                   program, history, frames, matched, steps>>

NextDecode == TryFrom \/ Into

SpecDecode == InitDecode /\ [][NextDecode]_vars

----------------------------------------------------------------------------
(* Reading the history *)

Stepped == history # << >>
Last == history[1]                         \* the last step: what it decoded, and the state before it
Before == history[2]                       \* the step before the last one

Calls == {"CallLiteral", "CallRegister"}
Pushes == {"PushLiteral", "PushRegister"}

\* The big-endian 16-bit operand at address a of memory image mem
Operand16(mem, a) == ReadByte(mem, a) * Byte + ReadByte(mem, a + 1)

\* The register a one-byte operand at address a names
OperandRegister(mem, a) == ReadByte(mem, a) % RegCount

\* The value of register r as an instruction reads it once Ip has moved on by `fetched`
RegisterRead(h, r, fetched) == IF r = IP THEN h.regs[IP] + fetched ELSE h.regs[r]

\* The value step h pushed (h.op is PushLiteral or PushRegister)
PushedValue(h) ==
    IF h.op = "PushLiteral" THEN Operand16(h.mem, h.regs[IP] + 1)
    ELSE RegisterRead(h, OperandRegister(h.mem, h.regs[IP] + 1), 2)

Returned == matched # << >>                \* the last step was a Return that matched a call
MatchedCall == matched[1]

----------------------------------------------------------------------------
(* Claims *)

\* C1: after a Return that matches a call, each of R1..R8 holds exactly the value it
\* held when the call was executed, whatever the callee wrote or pushed, also for
\* nested calls.
C1_RegistersRestored ==
    Returned => \A r \in GeneralRegs : registers[r] = MatchedCall.regs[r]

\* C2: after a Return that matches a call, Ip is the return address the call saved:
\* the address of the byte following the call instruction's operands.
C2_ReturnAddress ==
    Returned => registers[IP] = MatchedCall.ret

\* C3: the end-to-end scenario of test_cpu: after the Return, R1 = 0x1234, R4 = 0x5678,
\* R8, Fp are as before the call, Sp is as before the argument count was pushed, and
\* three following Pops yield 0x1111, 0x2222, 0x3333.
C3_Scenario ==
    (program.name = "scenario" /\ program.p = <<sub_routine_address, 1>>) =>
        /\ (steps <= 16 => result = "Ok")
        /\ (steps = 13 =>
               /\ Returned
               /\ registers[R1] = 4660
               /\ registers[R4] = 22136
               /\ registers[R8] = MatchedCall.regs[R8]
               /\ registers[FP] = MatchedCall.regs[FP]
               /\ registers[SP] = MatchedCall.regs[SP] + 2)
        /\ (steps = 14 => registers[R5] = 4369)
        /\ (steps = 15 => registers[R6] = 8738)
        /\ (steps = 16 => registers[R7] = 13107)

\* C4: a push of v immediately followed by a pop yields exactly v and leaves Sp at
\* the value it had before the push.
C4_PushPop ==
    (/\ Len(history) >= 2
     /\ Last.op = "Pop" /\ Before.op \in Pushes
     /\ OperandRegister(Last.mem, Last.regs[IP] + 1) # SP) =>
        /\ result = "Ok"
        /\ registers[OperandRegister(Last.mem, Last.regs[IP] + 1)] = PushedValue(Before)
        /\ registers[SP] = Before.regs[SP]

\* C5: for a and a+1 inside memory, set_memory16 at a with v followed by
\* get_memory_16 at a returns v.
C5_Write16Read16 ==
    (/\ Len(calls) = 2
     /\ calls[1].op = "get_memory_16" /\ calls[2].op = "set_memory16"
     /\ calls[1].address = calls[2].address
     /\ calls[1].address + 1 < size) =>
        /\ result = "Ok"
        /\ value = calls[2].v

\* C6 as stated: a step whose opcode byte is not in the table fails with the
\* invalid-opcode error and leaves every register, Ip included, and every memory
\* cell as before.
C6_InvalidOpcodeChangesNothing ==
    (Stepped /\ Last.op = "InvalidInstruction") =>
        /\ result = "InvalidInstruction"
        /\ registers = Last.regs
        /\ memory = Last.mem

\* C6 as amended: a step whose opcode byte is not in the table fails with the
\* invalid-instruction error and leaves every memory cell, the frame-byte counter and
\* every register but Ip as before; the fetch has advanced Ip by one (mod 65536).
\* With Ip = 0xFFFF and overflow checks on, the fetch panics before the decode.
C6_InvalidOpcode ==
    (Stepped /\ Last.op = "InvalidInstruction") =>
        /\ memory = Last.mem
        /\ stack_frame_size = Last.sfs
        /\ \A r \in RegisterName \ {IP} : registers[r] = Last.regs[r]
        /\ IF overflow_checks /\ Last.regs[IP] = Word - 1
           THEN result = PanicOverflow /\ registers[IP] = Last.regs[IP]
           ELSE result = "InvalidInstruction"
                /\ registers[IP] = (Last.regs[IP] + 1) % Word

\* C6 witness: byte 0xFF decoded after a register and the stack have been written
C6_Witness ==
    /\ Stepped /\ Last.op = "InvalidInstruction"
    /\ ReadByte(Last.mem, Last.regs[IP]) = 255
    /\ Last.regs[R1] = 4660 /\ Last.sfs = 2
    /\ result = "InvalidInstruction"
    /\ registers[IP] = Last.regs[IP] + 1

\* C7: a Pop executed with the stack empty (Sp at memory.size - 2) fails with a
\* StackUnderflow error.
C7_PopEmptyUnderflow ==
    (Stepped /\ Last.op = "Pop" /\ Last.regs[SP] = (size - 2) % Word) =>
        result = "StackUnderflow"

\* A push of step h runs with Sp = 0: the push of a push instruction, or one of the
\* ten pushes of a call's state save
PushesAtZero(h) ==
    \/ h.op \in Pushes /\ h.regs[SP] = 0
    \/ h.op \in Calls /\ h.regs[SP] \in {2 * k : k \in 0 .. 9}

\* C8: a push executed when Sp has reached zero fails with a StackOverflow error; Sp
\* is never decremented below zero by wrapping around to the top of the address range.
C8_PushFullOverflow ==
    (Stepped /\ PushesAtZero(Last)) =>
        /\ result = "StackOverflow"
        /\ registers[SP] <= Last.regs[SP]

\* C9: AddRegisterToRegister stores (a + b) mod 65536 in Acc and completes
\* successfully for every pair of register values, also when a + b exceeds 0xFFFF.
C9_AddWraps ==
    (Stepped /\ Last.op = "AddRegisterToRegister" /\ Last.regs[IP] + 2 < size) =>
        LET a == RegisterRead(Last, OperandRegister(Last.mem, Last.regs[IP] + 1), 3)
            b == RegisterRead(Last, OperandRegister(Last.mem, Last.regs[IP] + 2), 3)
        IN  /\ result = "Ok"
            /\ registers[ACC] = (a + b) % Word

\* A JumpNotEq whose operands lie inside memory and whose next instruction address
\* is a 16-bit address
JumpDecoded(h) ==
    /\ h.op = "JumpNotEq"
    /\ h.regs[IP] + 4 < size
    /\ h.regs[IP] + 5 < Word

\* C10: JumpNotEq with comparison value c and target t ends with Ip at the opcode
\* address + 5 if Acc = c and with Ip = t if Acc # c; no other register and no
\* memory cell changes.
C10_JumpNotEq ==
    (Stepped /\ JumpDecoded(Last)) =>
        LET c == Operand16(Last.mem, Last.regs[IP] + 1)
            t == Operand16(Last.mem, Last.regs[IP] + 3)
        IN  /\ result = "Ok"
            /\ registers[IP] = IF Last.regs[ACC] = c THEN Last.regs[IP] + 5 ELSE t
            /\ \A r \in RegisterName \ {IP} : registers[r] = Last.regs[r]
            /\ memory = Last.mem
            /\ stack_frame_size = Last.sfs

\* C10 witness: a jump taken (Acc # c, to a target that is not the next instruction)
\* and then a jump that falls through (Acc = c)
C10_Witness ==
    /\ Len(history) >= 2
    /\ JumpDecoded(Before) /\ JumpDecoded(Last)
    /\ Before.regs[ACC] # Operand16(Before.mem, Before.regs[IP] + 1)
    /\ Last.regs[IP] = Operand16(Before.mem, Before.regs[IP] + 3)
    /\ Last.regs[IP] # Before.regs[IP] + 5
    /\ Last.regs[ACC] = Operand16(Last.mem, Last.regs[IP] + 1)
    /\ result = "Ok"
    /\ registers[IP] = Last.regs[IP] + 5

\* The instruction table as the specification gives it, from byte 0x10 upwards
C11_Table ==
    <<"MoveLiteralToRegister", "MoveRegisterToRegister", "MoveRegisterToMemory",
      "MoveMemoryToRegister", "AddRegisterToRegister", "JumpNotEq", "PushLiteral",
      "PushRegister", "Pop", "CallLiteral", "CallRegister", "Return">>

RegisterInstructions ==
    {"MoveLiteralToRegister", "MoveRegisterToRegister", "MoveRegisterToMemory",
     "MoveMemoryToRegister", "AddRegisterToRegister", "PushRegister", "Pop",
     "CallRegister"}

RegisterErrors == {"RegisterNameDoesNotExist", "RegisterOutOfBounds"}

\* The 16-bit values the two bytes at a, a+1 of mem can stand for (either byte order)
Slot16(mem, a) ==
    {ReadByte(mem, a) * Byte + ReadByte(mem, (a + 1) % Word),
     ReadByte(mem, (a + 1) % Word) * Byte + ReadByte(mem, a)}

\* Step h, which returned Ok, read or wrote the registers at the positions
\* (operand byte mod 12) in the order Ip, Acc, R1..R8, Sp, Fp
RegisterEffect(h) ==
    LET ip == h.regs[IP]
        pos(k) == ReadByte(h.mem, ip + k) % 12
    IN  CASE h.op = "MoveLiteralToRegister" ->
               registers = [[h.regs EXCEPT ![IP] = ip + 4]
                               EXCEPT ![pos(3)] = Operand16(h.mem, ip + 1)]
          [] h.op = "MoveRegisterToRegister" ->
               registers = [[h.regs EXCEPT ![IP] = ip + 3]
                               EXCEPT ![pos(2)] = RegisterRead(h, pos(1), 2)]
          [] h.op = "MoveRegisterToMemory" ->
               RegisterRead(h, pos(1), 2) \in Slot16(memory, Operand16(h.mem, ip + 2))
          [] h.op = "MoveMemoryToRegister" ->
               /\ registers[pos(3)] \in Slot16(h.mem, Operand16(h.mem, ip + 1))
               /\ \A q \in RegisterName \ {IP, pos(3)} : registers[q] = h.regs[q]
          [] h.op = "AddRegisterToRegister" ->
               registers[ACC] = (RegisterRead(h, pos(1), 3) + RegisterRead(h, pos(2), 3)) % Word
          [] h.op = "PushRegister" ->
               RegisterRead(h, pos(1), 2) \in Slot16(memory, h.regs[SP])
          [] h.op = "Pop" ->
               /\ registers[pos(1)] \in Slot16(h.mem, (h.regs[SP] + 2) % Word)
               /\ \A q \in RegisterName \ {IP, SP, pos(1)} : registers[q] = h.regs[q]
          [] h.op = "CallRegister" ->
               registers[IP] = RegisterRead(h, pos(1), 2)

\* C12: for every byte value b used as a register-index operand, the instruction
\* operates on the register at position b mod 12 in the order Ip, Acc, R1..R8, Sp, Fp,
\* and never fails with a register error.
C12_RegisterOperand ==
    (Stepped /\ Last.op \in RegisterInstructions /\ Last.regs[IP] + 3 < size) =>
        /\ result \notin RegisterErrors
        /\ (Last.op = "Pop" => result # PanicIndex)
        /\ (result = "Ok" => RegisterEffect(Last))

\* C12 witness: MoveLiteralToRegister with operand byte 255 (255 mod 12 = 3) loads R2
C12_Witness ==
    /\ Stepped /\ Last.op = "MoveLiteralToRegister"
    /\ ReadByte(Last.mem, Last.regs[IP] + 3) = 255
    /\ result = "Ok"
    /\ registers[R2] = Operand16(Last.mem, Last.regs[IP] + 1)
    /\ registers[R2] # Last.regs[R2]

\* C13: in every state reached by successful step() calls, Ip holds an address in
\* [0, memory.size) when the next opcode fetch begins.
C13_IpInMemory ==
    result = "Ok" => registers[IP] \in 0 .. (size - 1)

\* The two bytes at a, a+1 of memory hold v most-significant byte first
StoredBigEndian(a, v) ==
    /\ ReadByte(memory, a) = v \div Byte
    /\ ReadByte(memory, (a + 1) % Word) = v % Byte

\* C14: every 16-bit value the engine writes to memory (MoveRegisterToMemory at its
\* operand address, every stack push at Sp) is stored most-significant byte first:
\* after the write of v at a, memory[a] = v div 256 and memory[a+1] = v mod 256.
C14_BigEndianWrites ==
    (Stepped /\ result = "Ok") =>
        /\ (Last.op = "MoveRegisterToMemory" =>
               StoredBigEndian(Operand16(Last.mem, Last.regs[IP] + 2),
                               RegisterRead(Last, OperandRegister(Last.mem, Last.regs[IP] + 1), 2)))
        /\ (Last.op \in Pushes => StoredBigEndian(Last.regs[SP], PushedValue(Last)))
        /\ (Last.op \in Calls => StoredBigEndian(Last.regs[SP], Last.regs[R1]))

\* C15: after every Return that matches a call, Fp equals the value Fp held
\* immediately before that call was executed: for a first call, for a second call
\* made from the same caller frame after an earlier call returned, and for nested calls.
C15_FramePointerRestored ==
    Returned => registers[FP] = MatchedCall.regs[FP]

\* The call whose frame the last step, a Return, restored or tried to restore
ReturnedFrom == IF matched # << >> THEN matched[1] ELSE frames[1]

\* C16: if the caller pushes n argument values and then the literal n as the argument
\* count before a call, the matching Return pops exactly n values after the saved
\* frame and the count, leaving Sp at its value before the first argument was pushed.
C16_ArgumentsPopped ==
    (/\ program.name = "call" /\ program.p[6] = 0
     /\ Stepped /\ Last.op = "Return"
     /\ (matched # << >> \/ frames # << >>)) =>
        /\ result = "Ok"
        /\ registers[SP] = ReturnedFrom.regs[SP] + 2 * (program.p[3] + 1)

\* The number of bytes of an instruction: its opcode and its operands
InstructionLength(op) ==
    CASE op \in {"MoveLiteralToRegister", "MoveRegisterToMemory", "MoveMemoryToRegister"} -> 4
      [] op \in {"MoveRegisterToRegister", "AddRegisterToRegister", "PushLiteral",
                 "CallLiteral"} -> 3
      [] op = "JumpNotEq" -> 5
      [] op \in {"PushRegister", "Pop", "CallRegister"} -> 2
      [] OTHER -> 1

\* Step h makes a 16-bit memory access at an address a with a or a+1 outside memory:
\* a 16-bit operand that runs over the end of memory, the data address of
\* MoveRegisterToMemory or MoveMemoryToRegister, the slot of a push or of a pop
OutOfRange16(h) ==
    LET ip == h.regs[IP]
        inside == ip + InstructionLength(h.op) <= size
    IN  \/ /\ h.op \in {"PushLiteral", "CallLiteral", "MoveLiteralToRegister",
                         "MoveMemoryToRegister", "JumpNotEq"}
           /\ ip + 1 < Word /\ ip + 2 >= size
        \/ h.op = "MoveRegisterToMemory" /\ inside /\ Operand16(h.mem, ip + 2) + 1 >= size
        \/ h.op = "MoveMemoryToRegister" /\ inside /\ Operand16(h.mem, ip + 1) + 1 >= size
        \/ h.op \in Pushes /\ inside /\ h.regs[SP] + 1 >= size
        \/ h.op = "Pop" /\ inside /\ h.regs[SP] + 3 >= size

\* C17: a 16-bit memory access by an instruction whose address a or a+1 lies outside
\* [0, memory.size) makes step() return the memory-out-of-bounds error: no panic and
\* no access to a wrapped address.
C17_OutOfBoundsError ==
    (Stepped /\ OutOfRange16(Last)) => result = "MemoryOutOfBounds"

\* A fetch of step h starts with Ip so high that advancing it passes 0xFFFF
FetchPassesTop(h) ==
    \/ h.regs[IP] = Word - 1
    \/ h.op \in Instruction /\ h.regs[IP] + InstructionLength(h.op) >= Word

\* C18: when advancing Ip during a fetch would exceed the 16-bit address range (fetch
\* with Ip = 0xFFFF, fetch16 with Ip >= 0xFFFE), step() returns an error; Ip never
\* wraps around to a low address.
C18_NoIpWraparound ==
    (Stepped /\ FetchPassesTop(Last)) =>
        /\ result \in CpuError
        /\ registers[IP] >= Last.regs[IP]

\* The instructions that write the register their operand names, and that register
WritesRegister ==
    {"MoveLiteralToRegister", "MoveRegisterToRegister", "MoveMemoryToRegister", "Pop"}

DestinationRegister(h) ==
    LET k == CASE h.op \in {"MoveLiteralToRegister", "MoveMemoryToRegister"} -> 3
               [] h.op = "MoveRegisterToRegister" -> 2
               [] OTHER -> 1
    IN  OperandRegister(h.mem, (h.regs[IP] + k) % Word)

\* C19 as stated: Fp changes only in steps that execute CallLiteral, CallRegister or
\* Return; a step executing any other instruction, with any operand bytes, leaves Fp
\* unchanged.
C19_FpChangesOnlyInCalls ==
    (Stepped /\ Last.op \notin Calls \cup {"Return"}) => registers[FP] = Last.regs[FP]

\* C19 as amended: Fp changes only in steps that execute CallLiteral, CallRegister or
\* Return, or an instruction that writes a register (MoveLiteralToRegister,
\* MoveRegisterToRegister, MoveMemoryToRegister, Pop) whose destination operand byte
\* is 11 modulo 12, that is, names Fp; every other step leaves Fp unchanged.
C19_FpChanges ==
    (Stepped /\ registers[FP] # Last.regs[FP]) =>
        \/ Last.op \in Calls \cup {"Return"}
        \/ Last.op \in WritesRegister /\ DestinationRegister(Last) = FP

\* C19 witness: MoveLiteralToRegister with destination byte 23 (23 mod 12 = 11) has
\* loaded Fp
C19_Witness ==
    /\ Stepped /\ Last.op = "MoveLiteralToRegister"
    /\ ReadByte(Last.mem, Last.regs[IP] + 3) = 23
    /\ result = "Ok"
    /\ registers[FP] = Operand16(Last.mem, Last.regs[IP] + 1)
    /\ registers[FP] # Last.regs[FP]

\* The slot step h wrote (h.op is MoveRegisterToMemory or a push) and the value
WrittenSlot(h) ==
    IF h.op = "MoveRegisterToMemory" THEN Operand16(h.mem, h.regs[IP] + 2)
    ELSE h.regs[SP]

WrittenValue(h) ==
    IF h.op = "MoveRegisterToMemory"
    THEN RegisterRead(h, OperandRegister(h.mem, h.regs[IP] + 1), 2)
    ELSE PushedValue(h)

\* Step h reads the 16-bit slot at address a into a register
ReadsSlot(h, a) ==
    \/ h.op = "MoveMemoryToRegister" /\ Operand16(h.mem, h.regs[IP] + 1) = a
    \/ h.op = "Pop" /\ (h.regs[SP] + 2) % Word = a

\* C20: a value stored by MoveRegisterToMemory at address a, or by a stack push into
\* the slot at a, is read back unchanged by a following MoveMemoryToRegister from a,
\* for every 16-bit value; all 16-bit memory reads and writes of the engine use one
\* byte order, so a following Pop of the slot reads the value back unchanged as well.
C20_OneByteOrder ==
    (/\ Len(history) >= 2
     /\ Before.op \in Pushes \cup {"MoveRegisterToMemory"}
     /\ ReadsSlot(Last, WrittenSlot(Before))) =>
        /\ result = "Ok"
        /\ registers[DestinationRegister(Last)] = WrittenValue(Before)

\* The address a call at step h transfers control to
CallTarget(h) ==
    IF h.op = "CallLiteral" THEN Operand16(h.mem, h.regs[IP] + 1)
    ELSE RegisterRead(h, OperandRegister(h.mem, h.regs[IP] + 1), 2)

\* The ten values a call at step h saves, in the order it pushes them
SavedFrame(h) ==
    <<h.regs[R1], h.regs[R2], h.regs[R3], h.regs[R4], h.regs[R5], h.regs[R6],
      h.regs[R7], h.regs[R8], ReturnAddress(h.op, h.regs) % Word, (h.sfs + 20) % Word>>

\* C21: a successful CallLiteral or CallRegister with pre-call stack pointer S and
\* frame-byte counter c leaves the ten stack slots at S, S-2, ..., S-18 holding, in
\* this order, R1..R8, the return address and the frame size c + 20, then has
\* Sp = Fp = S - 20, frame-byte counter 0 and Ip = the call target (16-bit
\* arithmetic; a slot holds a value when its two bytes are the bytes of the value).
C21_CallFrame ==
    (Stepped /\ Last.op \in Calls /\ result = "Ok") =>
        /\ \A k \in 1 .. 10 :
               SavedFrame(Last)[k] \in Slot16(memory, (Last.regs[SP] + Word - 2 * (k - 1)) % Word)
        /\ registers[SP] = (Last.regs[SP] + Word - 20) % Word
        /\ registers[FP] = registers[SP]
        /\ stack_frame_size = 0
        /\ registers[IP] = CallTarget(Last)

\* C21 witness: the call of test_cpu, made with R1 = 0x1234, R4 = 0x5678 and eight
\* bytes pushed, has opened its frame
C21_Witness ==
    /\ Stepped /\ Last.op = "CallLiteral" /\ result = "Ok"
    /\ Last.regs[R1] = 4660 /\ Last.regs[R4] = 22136 /\ Last.sfs = 8
    /\ registers[FP] = Last.regs[SP] - 20
    /\ registers[IP] = sub_routine_address
    /\ 28 \in Slot16(memory, Last.regs[SP] - 18)

\* The frame-size value the call matched by the last Return pushed
PushedFrameSize == (MatchedCall.sfs + 20) % Word

\* C22: on Return, Fp is set to (Fp at the start of the Return) + f, where f is
\* exactly the frame-size value the matching call pushed, for every f for which the
\* sum is a valid address, f >= 256 included: no shift or byte-order transformation
\* alters f.
C22_FrameSizeAdded ==
    (Returned /\ Last.regs[FP] + PushedFrameSize < size) =>
        registers[FP] = Last.regs[FP] + PushedFrameSize

\* The instructions that push to or pop from the stack
StackInstructions == Pushes \cup Calls \cup {"Pop", "Return"}

\* C23: in every state reached by successful PushLiteral, PushRegister, Pop, CallLiteral,
\* CallRegister and Return steps only, the frame-byte counter equals Fp - Sp, the bytes
\* pushed and not yet popped since the current frame was opened: it is never below zero,
\* and after a Return it is the caller's remaining pushed bytes.
C23_FrameByteCounter ==
    (program.name = "stack" /\ result = "Ok"
       /\ (Stepped => Last.op \in StackInstructions)) =>
        stack_frame_size = registers[FP] - registers[SP]

====
